---- MODULE Spec2Model ----
(***************************************************************************)
(* A model of the data_flux ingestion client:                              *)
(*   ClientAPI.fetch            src/src/data_flux/client.py                *)
(*   ApiSchema and its records  src/src/data_flux/api_schema.py            *)
(*   ApiValidator.validate      src/src/data_flux/validator.py             *)
(*   Ingest, IngestManager      src/src/data_flux/ingest.py                *)
(*   the mapping functions      src/src/data_flux/data_schema.py           *)
(*                                                                         *)
(* Python values are encoded so that TLC never compares values of          *)
(* different types:                                                        *)
(*   an Optional attribute is <<>> (None) or <<v>>;                        *)
(*   a JSON value is a pair <<tag, v>>: <<"int", n>>, <<"str", k>> (the    *)
(*   k-th opaque text), <<"numstr", n>> (the text that is the decimal      *)
(*   numeral of n), <<"none", 0>> (null), <<"list", seq>>;                 *)
(*   a JSON object is a record whose DOMAIN is the set of keys present.    *)
(***************************************************************************)
EXTENDS Integers, Sequences, FiniteSets, TLC

VARIABLES
    endpoint,     \* IngestManager.endpoint (an Endpoints member)
    version_id,   \* IngestManager.version_id
    ingest,       \* IngestManager.ingest: <<>> or <<the Ingest object>>
    request_size, \* IngestManager.request_size: <<>> or <<n>>
    request_num,  \* IngestManager.request_num: <<>> or <<n>>
    pages,        \* IngestManager.pages: <<>> or <<n>>
    total,        \* IngestManager.total: <<>> or <<n>>
    pc,           \* where the single thread of control is suspended
    call,         \* the arguments of the call in progress
    tasks,        \* the fetch coroutines handed to asyncio.gather
    raised,       \* how the last finished call ended: "ok" or the exception
    log,          \* the warning, error and throughput lines the last call logged
    launched,     \* the queries of the fetches the last call issued, in order
    nfetch,       \* history: how many fetches were issued so far
    persisted,    \* data_to_persist of the last run that mapped (<<>> if none)
    server,       \* the environment: how many records the server holds
    read_args,    \* history: the total configure last read, the save run last read
    outoforder,   \* history: a fetch of the last call finished before one of a
                  \* lower page
    history       \* history: the calls started, in order

vars == <<endpoint, version_id, ingest, request_size, request_num, pages, total,
          pc, call, tasks, raised, log, launched, nfetch, persisted, server,
          read_args, outoforder, history>>

-----------------------------------------------------------------------------
(* Bounds of the exploration.                                              *)

MaxFetches == 3     \* fetches issued in one behaviour
MaxCalls == 3       \* calls started in one behaviour
MaxSize == 2        \* page sizes 0..MaxSize are tried (and ExampleSize)
MaxTotal == 2       \* totals 0..MaxTotal are tried (and the spec's examples)
MaxServer == 2      \* the server holds 1..MaxServer records
MaxElapsed == 1     \* elapsed wall times 0..MaxElapsed
MaxStart == 2       \* start pages 1..MaxStart
MaxItems == 2       \* records on one page

(* The numbers of the spec's worked examples.                              *)
ExampleSize == 10
ExamplePages == 5
ExampleAbsent == 3

-----------------------------------------------------------------------------
(* Values.                                                                 *)

None == <<>>
Some(v) == <<v>>

IntV(n) == <<"int", n>>
StrV(k) == <<"str", k>>
NumStrV(n) == <<"numstr", n>>
NoneV == <<"none", 0>>
ListV(s) == <<"list", s>>

(* Endpoints: the enumeration and the path each member carries.            *)
Endpoints == {"TRACKS", "USERS", "LISTEN_HISTORY"}

EndpointValue(e) ==
    CASE e = "TRACKS" -> "/tracks"
      [] e = "USERS" -> "/users"
      [] e = "LISTEN_HISTORY" -> "/listen_history"
      [] OTHER -> "/albums"

(* IngestManager takes whatever object it is given as endpoint and reads   *)
(* only its value: a member of some other enumeration is accepted too.     *)
ForeignEndpoint == "ALBUMS"

-----------------------------------------------------------------------------
(* api_schema.py: the pydantic models.                                     *)

(* PositiveInt: an integer greater than zero. The models validate in       *)
(* pydantic's default (lax) mode, where a text that is the numeral of an   *)
(* integer is converted to that integer.                                   *)
PositiveInt(v) == v[1] \in {"int", "numstr"} /\ v[2] > 0

(* The value a validated PositiveInt field, or list of them, holds.        *)
AsInt(v) == IntV(v[2])
AsIntList(v) ==
    IF v[1] = "list" THEN ListV([i \in 1..Len(v[2]) |-> AsInt(v[2][i])]) ELSE v

(* Optional[str] = None: the key may be missing, null or a text.           *)
OptionalStr(obj, f) == f \in DOMAIN obj => obj[f][1] \in {"str", "numstr", "none"}

(* A required PositiveInt field.                                           *)
RequiredPositiveInt(obj, f) == f \in DOMAIN obj /\ PositiveInt(obj[f])

(* Optional[List[PositiveInt]] = Field(None, min_items=0)                  *)
OptionalPositiveIntList(obj, f) ==
    f \in DOMAIN obj =>
        \/ obj[f][1] = "none"
        \/ /\ obj[f][1] = "list"
           /\ \A i \in 1..Len(obj[f][2]) : PositiveInt(obj[f][2][i])

BaseFields == <<"created_at", "updated_at">>
UserStrFields == <<"first_name", "last_name", "email", "gender", "favorite_genres">>
TrackStrFields == <<"name", "artist", "songwriters", "duration", "genres", "album">>

Range(s) == {s[i] : i \in 1..Len(s)}

BaseSchemaOk(obj) == \A f \in Range(BaseFields) : OptionalStr(obj, f)

UserSchemaOk(obj) ==
    /\ BaseSchemaOk(obj)
    /\ RequiredPositiveInt(obj, "id")
    /\ \A f \in Range(UserStrFields) : OptionalStr(obj, f)

TrackSchemaOk(obj) ==
    /\ BaseSchemaOk(obj)
    /\ RequiredPositiveInt(obj, "id")
    /\ \A f \in Range(TrackStrFields) : OptionalStr(obj, f)

ListenHistorySchemaOk(obj) ==
    /\ BaseSchemaOk(obj)
    /\ RequiredPositiveInt(obj, "user_id")
    /\ OptionalPositiveIntList(obj, "items")

(* The field names of each model, and the value a validated field holds:   *)
(* the input's value, or None (the default) when the key is missing.       *)
UserFieldNames == Range(BaseFields) \cup {"id"} \cup Range(UserStrFields)
TrackFieldNames == Range(BaseFields) \cup {"id"} \cup Range(TrackStrFields)
ListenHistoryFieldNames == Range(BaseFields) \cup {"user_id", "items"}

FieldNames(variant) ==
    CASE variant = "User" -> UserFieldNames
      [] variant = "Track" -> TrackFieldNames
      [] variant = "ListenHistory" -> ListenHistoryFieldNames

SchemaOk(variant, obj) ==
    CASE variant = "User" -> UserSchemaOk(obj)
      [] variant = "Track" -> TrackSchemaOk(obj)
      [] variant = "ListenHistory" -> ListenHistorySchemaOk(obj)

(* A validated model instance: its class, and every field of the class.    *)
Instance(variant, obj) ==
    [f \in FieldNames(variant) \cup {"variant"} |->
        IF f = "variant" THEN <<"class", variant>>
        ELSE IF f \notin DOMAIN obj THEN NoneV
        ELSE IF f \in {"id", "user_id"} THEN AsInt(obj[f])
        ELSE IF f = "items" THEN AsIntList(obj[f])
        ELSE obj[f]]

(* model_fields_set: the fields of the class the input gave.               *)
FieldsSet(variant, obj) == Cardinality(FieldNames(variant) \cap DOMAIN obj)

(* Union[UserSchema, TrackSchema, ListenHistorySchema], pydantic's smart   *)
(* mode: every member is tried left to right; among the members that       *)
(* validate, the one with the most fields set wins, the leftmost on a tie. *)
UnionOrder == <<"User", "Track", "ListenHistory">>

UnionMatches(obj) == {i \in 1..Len(UnionOrder) : SchemaOk(UnionOrder[i], obj)}

UnionChoice(obj) ==
    LET ok == UnionMatches(obj)
        best == {i \in ok : \A j \in ok :
                    FieldsSet(UnionOrder[j], obj) <= FieldsSet(UnionOrder[i], obj)}
    IN  UnionOrder[CHOOSE i \in best : \A j \in best : i <= j]

ItemOk(obj) == UnionMatches(obj) # {}

(* An envelope whose items may be empty (min_items=0): the fault C17 rules *)
(* out.                                                                    *)
ApiSchemaOkAllowsEmpty(obj) ==
    /\ RequiredPositiveInt(obj, "total")
    /\ RequiredPositiveInt(obj, "page")
    /\ RequiredPositiveInt(obj, "size")
    /\ RequiredPositiveInt(obj, "pages")
    /\ "items" \in DOMAIN obj
    /\ obj["items"][1] = "list"
    /\ \A i \in 1..Len(obj["items"][2]) : ItemOk(obj["items"][2][i])

(* ApiSchema built from a JSON object: the validated envelope, or     *)
(* no envelope (a ValidationError).                                        *)
ApiSchemaOk(obj) ==
    /\ RequiredPositiveInt(obj, "total")
    /\ RequiredPositiveInt(obj, "page")
    /\ RequiredPositiveInt(obj, "size")
    /\ RequiredPositiveInt(obj, "pages")
    /\ "items" \in DOMAIN obj
    /\ obj["items"][1] = "list"
    /\ Len(obj["items"][2]) >= 1
    /\ \A i \in 1..Len(obj["items"][2]) : ItemOk(obj["items"][2][i])

(* The errors of the ValidationError, as (field, kind) pairs: "missing",    *)
(* "int_type" (no integer and no numeral), "greater_than" (Input should be *)
(* greater than 0), "list_type", "too_short" (List should have at least 1  *)
(* item), "union" (an item that no member of the Union accepts).           *)
EnvelopeInts == {"total", "page", "size", "pages"}

ApiSchemaErrors(obj) ==
    {<<f, "missing">> : f \in (EnvelopeInts \cup {"items"}) \ DOMAIN obj}
    \cup {<<f, "int_type">> :
            f \in {g \in EnvelopeInts \cap DOMAIN obj : obj[g][1] \notin {"int", "numstr"}}}
    \cup {<<f, "greater_than">> :
            f \in {g \in EnvelopeInts \cap DOMAIN obj :
                      obj[g][1] \in {"int", "numstr"} /\ obj[g][2] <= 0}}
    \cup (IF "items" \notin DOMAIN obj THEN {}
          ELSE IF obj["items"][1] # "list" THEN {<<"items", "list_type">>}
          ELSE IF Len(obj["items"][2]) < 1 THEN {<<"items", "too_short">>}
          ELSE IF \E i \in 1..Len(obj["items"][2]) : ~ItemOk(obj["items"][2][i])
          THEN {<<"items", "union">>}
          ELSE {})

(* An envelope that keeps its items last first: the fault C18 rules out.   *)
ApiSchemaReversed(obj) ==
    [total |-> obj["total"][2],
     page |-> obj["page"][2],
     size |-> obj["size"][2],
     pages |-> obj["pages"][2],
     items |-> [i \in 1..Len(obj["items"][2]) |->
                    Instance(UnionChoice(obj["items"][2][Len(obj["items"][2]) + 1 - i]),
                             obj["items"][2][Len(obj["items"][2]) + 1 - i])]]

ApiSchema(obj) ==
    [total |-> obj["total"][2],
     page |-> obj["page"][2],
     size |-> obj["size"][2],
     pages |-> obj["pages"][2],
     items |-> [i \in 1..Len(obj["items"][2]) |->
                    Instance(UnionChoice(obj["items"][2][i]), obj["items"][2][i])]]

-----------------------------------------------------------------------------
(* The API server, as the client sees it (the environment).                *)

(* What one HTTP exchange can end in.                                      *)
TransportError == [kind |-> "transport_error"]   \* session.get raises
HttpError == [kind |-> "http_error"]             \* raise_for_status raises
MalformedBody == [kind |-> "malformed"]          \* response.json() raises
JsonArray == [kind |-> "array"]                  \* a JSON body that is no object
JsonObject(obj) == [kind |-> "object", body |-> obj]

(* The k-th record of the endpoint's collection, as the wire carries it.   *)
WireItem(e, k) ==
    CASE e = "USERS" -> [id |-> IntV(k), first_name |-> StrV(k)]
      [] e = "TRACKS" -> [id |-> IntV(k), name |-> StrV(k), artist |-> StrV(k)]
      [] e = "LISTEN_HISTORY" -> [user_id |-> IntV(k), items |-> ListV(<<IntV(k)>>)]

(* Page p of n records, for a query of size s to a server of t records.    *)
WirePage(e, p, n, s, t) ==
    [total |-> IntV(t), page |-> IntV(p), size |-> IntV(IF s >= 1 THEN s ELSE 1),
     pages |-> IntV(t),
     items |-> ListV([i \in 1..n |-> WireItem(e, (p - 1) * s + i)])]

(* The pages explored carry at most MaxItems records (a short page), and   *)
(* at least one; a page of no records is the server's malformed answer.    *)
PageLen(s) == IF s < 1 THEN 1 ELSE IF s > MaxItems THEN MaxItems ELSE s

ServerTotals == 1..MaxServer

FailureOutcomes == {TransportError, HttpError, MalformedBody}

-----------------------------------------------------------------------------
(* client.py: ClientAPI.fetch.                                             *)

(* A logged line: its level, its text and, for the line fetch logs, the    *)
(* page of the query it names (0 elsewhere).                               *)
LogError(what, page) == <<"error", what, page>>
LogWarning(what) == <<"warning", what, 0>>
LogInfo(what) == <<"info", what, 0>>

FetchNone == [kind |-> "none"]

(* A fetch that catches connection errors only and lets an HTTP error      *)
(* status through to gather: the fault C4 rules out.                       *)
FetchLetsHttpErrorThrough(outcome, page) ==
    IF outcome = HttpError
    THEN [raised |-> "ClientResponseError", value |-> FetchNone, log |-> <<>>]
    ELSE IF outcome \in FailureOutcomes
    THEN [raised |-> "ok", value |-> FetchNone,
          log |-> <<LogError("Error making request", page)>>]
    ELSE [raised |-> "ok", value |-> outcome, log |-> <<>>]

(* fetch: an exception of the exchange (all three are Exceptions) is       *)
(* caught, logged and None is returned; otherwise the decoded JSON value   *)
(* is returned. raised is what fetch lets through to its caller.           *)
Fetch(outcome, page) ==
    IF outcome \in FailureOutcomes
    THEN [raised |-> "ok", value |-> FetchNone,
          log |-> <<LogError("Error making request", page)>>]
    ELSE [raised |-> "ok", value |-> outcome, log |-> <<>>]

-----------------------------------------------------------------------------
(* validator.py: ApiValidator.validate.                                    *)

(* The schema is called with the response unpacked: a response that is no  *)
(* mapping cannot be unpacked (TypeError, not caught); a ValidationError   *)
(* is caught, logged                                                       *)
(* and None is returned.                                                   *)
ValidatorValidate(response) ==
    IF response["kind"] # "object"
    THEN [raised |-> "TypeError", value |-> None, log |-> <<>>]
    ELSE IF ApiSchemaOk(response["body"])
    THEN [raised |-> "ok", value |-> Some(ApiSchema(response["body"])), log |-> <<>>]
    ELSE [raised |-> "ok", value |-> None, log |-> <<LogError("Validation failed", 0)>>]

-----------------------------------------------------------------------------
(* ingest.py: Ingest.                                                      *)

(* Ingest.__init__                                                         *)
NewIngest(rn) == [request_num |-> rn, data_raw |-> <<>>, data_validated |-> <<>>]

(* A loop over range(start_page, request_num) that misses the last page:   *)
(* the fault C6 rules out.                                                 *)
ExecuteTasksExclusive(rn, size, start_page) ==
    [i \in 1..(IF rn - start_page > 0 THEN rn - start_page ELSE 0) |->
        [page |-> start_page + i - 1, size |-> size, done |-> FALSE,
         result |-> FetchNone]]

(* An execute that leaves out its first page, as if the payload of the     *)
(* probe were reused for it: the fault C23 rules out.                      *)
ExecuteTasksReusesProbe(rn, size, start_page) ==
    [i \in 1..(IF rn - start_page > 0 THEN rn - start_page ELSE 0) |->
        [page |-> start_page + i, size |-> size, done |-> FALSE,
         result |-> FetchNone]]

(* The loop of execute: one coroutine for each page of                     *)
(* range(start_page, request_num + 1), none of them started yet.           *)
ExecuteTasks(rn, size, start_page) ==
    [i \in 1..(IF rn + 1 - start_page > 0 THEN rn + 1 - start_page ELSE 0) |->
        [page |-> start_page + i - 1, size |-> size, done |-> FALSE,
         result |-> FetchNone]]

(* asyncio.gather returns when every awaitable has finished ...            *)
GatherDone(ts) == \A i \in 1..Len(ts) : ts[i]["done"]

(* Results handed back last awaitable first: the fault C5 rules out.       *)
GatherResultsReversed(ts) == [i \in 1..Len(ts) |-> ts[Len(ts) + 1 - i]["result"]]

(* ... with the results in the order of the awaitables.                    *)
GatherResults(ts) == [i \in 1..Len(ts) |-> ts[i]["result"]]

(* A validate loop that stops at the first absent page instead of going on *)
(* to the next one: the fault C3 rules out.                                *)
RECURSIVE ValidateLoopBreaks(_, _, _, _)
ValidateLoopBreaks(raw, i, acc, lg) ==
    IF i > Len(raw)
    THEN [data_validated |-> acc, log |-> lg, raised |-> "ok"]
    ELSE IF raw[i] = FetchNone
    THEN [data_validated |-> acc,
          log |-> Append(lg, LogWarning("Fetched data is invalid.")),
          raised |-> "ok"]
    ELSE LET v == ValidatorValidate(raw[i]) IN
         IF v["raised"] # "ok"
         THEN [data_validated |-> acc, log |-> lg \o v["log"], raised |-> v["raised"]]
         ELSE IF v["value"] = None
         THEN [data_validated |-> acc, log |-> lg \o v["log"],
               raised |-> "AttributeError"]
         ELSE ValidateLoopBreaks(raw, i + 1, acc \o v["value"][1]["items"],
                                 lg \o v["log"])

(* The loop of Ingest.validate from the i-th raw result on, acc being      *)
(* data_validated so far: where it ends, or the exception that ends it.    *)
RECURSIVE ValidateLoop(_, _, _, _)
ValidateLoop(raw, i, acc, lg) ==
    IF i > Len(raw)
    THEN [data_validated |-> acc, log |-> lg, raised |-> "ok"]
    ELSE IF raw[i] = FetchNone
    THEN ValidateLoop(raw, i + 1, acc,
                      Append(lg, LogWarning("Fetched data is invalid.")))
    ELSE LET v == ValidatorValidate(raw[i]) IN
         IF v["raised"] # "ok"
         THEN [data_validated |-> acc, log |-> lg \o v["log"], raised |-> v["raised"]]
         ELSE IF v["value"] = None
         \* validated.items of None
         THEN [data_validated |-> acc, log |-> lg \o v["log"],
               raised |-> "AttributeError"]
         ELSE ValidateLoop(raw, i + 1, acc \o v["value"][1]["items"], lg \o v["log"])

(* A validate that starts from an empty data_validated each time: the      *)
(* fault C22 rules out.                                                    *)
IngestValidateFromEmpty(ing) == ValidateLoop(ing["data_raw"], 1, <<>>, <<>>)

IngestValidate(ing) == ValidateLoop(ing["data_raw"], 1, ing["data_validated"], <<>>)

-----------------------------------------------------------------------------
(* data_schema.py: the mapping functions.                                  *)

DataFieldNames(variant) == FieldNames(variant) \cup {"version_id"}

(* A build function that does not pass on the common fields created_at and *)
(* updated_at: the fault C14 rules out.                                    *)
BuildDataSchemaNoStamps(variant, data, v) ==
    IF ~PositiveInt(IntV(v))
    THEN [raised |-> "ValidationError", value |-> None]
    ELSE IF ~(FieldNames(variant) \subseteq DOMAIN data)
    THEN [raised |-> "AttributeError", value |-> None]
    ELSE [raised |-> "ok",
          value |-> Some([f \in DataFieldNames(variant) \cup {"variant"} |->
                            IF f = "variant" THEN <<"class", variant \o "Data">>
                            ELSE IF f = "version_id" THEN IntV(v)
                            ELSE IF f \in Range(BaseFields) THEN NoneV
                            ELSE data[f]])]

(* build_<variant>_data_schema(data, version_id): every attribute the      *)
(* function reads must exist on data (AttributeError otherwise), and the   *)
(* data schema validates version_id as a PositiveInt.                      *)
BuildDataSchema(variant, data, v) ==
    \* build_common_data_schema comes first: BaseDataSchema validates
    \* version_id, and every record has created_at and updated_at
    IF ~PositiveInt(IntV(v))
    THEN [raised |-> "ValidationError", value |-> None]
    ELSE IF ~(FieldNames(variant) \subseteq DOMAIN data)
    THEN [raised |-> "AttributeError", value |-> None]
    ELSE [raised |-> "ok",
          value |-> Some([f \in DataFieldNames(variant) \cup {"variant"} |->
                            IF f = "variant" THEN <<"class", variant \o "Data">>
                            ELSE IF f = "version_id" THEN IntV(v)
                            ELSE data[f]])]

(* A map in which the listen-history builder was never registered: the     *)
(* fault C16 rules out.                                                    *)
EndpointBuilderMapPartial(e) ==
    CASE e = "USERS" -> Some("User")
      [] e = "TRACKS" -> Some("Track")
      [] OTHER -> None

(* endpoint_builder_map.get(endpoint): the variant whose builder is        *)
(* registered for the endpoint, None when there is none.                   *)
EndpointBuilderMap(e) ==
    CASE e = "USERS" -> Some("User")
      [] e = "TRACKS" -> Some("Track")
      [] e = "LISTEN_HISTORY" -> Some("ListenHistory")
      [] OTHER -> None

(* A mapping that puts each mapped record before the ones mapped so far:   *)
(* the fault C12 rules out.                                                *)
RECURSIVE MapLoopPrepends(_, _, _, _, _)
MapLoopPrepends(variant, data, v, i, acc) ==
    IF i > Len(data)
    THEN [raised |-> "ok", value |-> acc]
    ELSE LET b == BuildDataSchema(variant, data[i], v) IN
         IF b["raised"] # "ok"
         THEN [raised |-> b["raised"], value |-> <<>>]
         ELSE MapLoopPrepends(variant, data, v, i + 1, <<b["value"][1]>> \o acc)

(* The list comprehension of run: the mapped records, or the exception     *)
(* the first failing record raises.                                        *)
RECURSIVE MapLoop(_, _, _, _, _)
MapLoop(variant, data, v, i, acc) ==
    IF i > Len(data)
    THEN [raised |-> "ok", value |-> acc]
    ELSE LET b == BuildDataSchema(variant, data[i], v) IN
         IF b["raised"] # "ok"
         THEN [raised |-> b["raised"], value |-> <<>>]
         ELSE MapLoop(variant, data, v, i + 1, Append(acc, b["value"][1]))

-----------------------------------------------------------------------------
(* ingest.py: IngestManager.                                               *)

(* A page count rounded down instead of up: the fault C9 rules out.        *)
FloorDiv(t, s) == t \div s

(* int(math.ceil(total / request_size)) for request_size > 0.              *)
CeilDiv(t, s) == 0 - ((0 - t) \div s)

(* A configure without the check of the probe's result, which hands None   *)
(* to the validator: the fault C7 rules out.                               *)
ConfigureTailUnchecked(m, data, size, tot) ==
    LET v == ValidatorValidate(data) IN
    IF v["raised"] # "ok"
    THEN [m EXCEPT !["raised"] = v["raised"], !["log"] = v["log"]]
    ELSE IF v["value"] = None
    THEN [m EXCEPT !["raised"] = "AttributeError", !["log"] = v["log"]]
    ELSE LET env == v["value"][1]
             t == IF tot = None THEN env["total"] ELSE tot[1]
             m1 == [m EXCEPT !["pages"] = Some(env["pages"]),
                             !["total"] = Some(t),
                             !["request_size"] = Some(size),
                             !["log"] = v["log"]]
         IN  IF size = 0
             THEN [m1 EXCEPT !["raised"] = "ZeroDivisionError"]
             ELSE [m1 EXCEPT !["request_num"] = Some(CeilDiv(t, size)),
                             !["ingest"] = Some(NewIngest(CeilDiv(t, size))),
                             !["raised"] = "ok"]

(* A configure that stores request_size before it validates the probe: the *)
(* fault C8 rules out.                                                     *)
ConfigureTailSizeFirst(m, data, size, tot) ==
    IF data = FetchNone
    THEN [m EXCEPT !["raised"] = "ConnectionError",
                   !["log"] = <<LogError("Test connection failed", 0)>>]
    ELSE LET v == ValidatorValidate(data)
             m0 == [m EXCEPT !["request_size"] = Some(size)]
         IN
         IF v["raised"] # "ok"
         THEN [m0 EXCEPT !["raised"] = v["raised"], !["log"] = v["log"]]
         ELSE IF v["value"] = None
         THEN [m0 EXCEPT !["raised"] = "AttributeError", !["log"] = v["log"]]
         ELSE LET env == v["value"][1]
                  t == IF tot = None THEN env["total"] ELSE tot[1]
                  m1 == [m0 EXCEPT !["pages"] = Some(env["pages"]),
                                   !["total"] = Some(t),
                                   !["log"] = v["log"]]
              IN  IF size = 0
                  THEN [m1 EXCEPT !["raised"] = "ZeroDivisionError"]
                  ELSE [m1 EXCEPT !["request_num"] = Some(CeilDiv(t, size)),
                                  !["ingest"] = Some(NewIngest(CeilDiv(t, size))),
                                  !["raised"] = "ok"]

(* A configure that keeps the Ingest it already has instead of building a  *)
(* new one: the fault C24 rules out.                                       *)
ConfigureTailKeepsIngest(m, data, size, tot) ==
    IF data = FetchNone
    THEN [m EXCEPT !["raised"] = "ConnectionError",
                   !["log"] = <<LogError("Test connection failed", 0)>>]
    ELSE LET v == ValidatorValidate(data) IN
         IF v["raised"] # "ok"
         THEN [m EXCEPT !["raised"] = v["raised"], !["log"] = v["log"]]
         ELSE IF v["value"] = None
         THEN [m EXCEPT !["raised"] = "AttributeError", !["log"] = v["log"]]
         ELSE LET env == v["value"][1]
                  t == IF tot = None THEN env["total"] ELSE tot[1]
                  m1 == [m EXCEPT !["pages"] = Some(env["pages"]),
                                  !["total"] = Some(t),
                                  !["request_size"] = Some(size),
                                  !["log"] = v["log"]]
              IN  IF size = 0
                  THEN [m1 EXCEPT !["raised"] = "ZeroDivisionError"]
                  ELSE [m1 EXCEPT !["request_num"] = Some(CeilDiv(t, size)),
                                  !["ingest"] = IF m["ingest"] = None
                                                THEN Some(NewIngest(CeilDiv(t, size)))
                                                ELSE m["ingest"],
                                  !["raised"] = "ok"]

(* configure from the probe's result on (line 157 to the end): the fields  *)
(* of the Manager afterwards, what was logged and how the call ended.      *)
ConfigureTail(m, data, size, tot) ==
    IF data = FetchNone
    THEN [m EXCEPT !["raised"] = "ConnectionError",
                   !["log"] = <<LogError("Test connection failed", 0)>>]
    ELSE LET v == ValidatorValidate(data) IN
         IF v["raised"] # "ok"
         THEN [m EXCEPT !["raised"] = v["raised"], !["log"] = v["log"]]
         ELSE IF v["value"] = None
         \* data_validated.pages of None
         THEN [m EXCEPT !["raised"] = "AttributeError", !["log"] = v["log"]]
         ELSE LET env == v["value"][1]
                  t == IF tot = None THEN env["total"] ELSE tot[1]
                  m1 == [m EXCEPT !["pages"] = Some(env["pages"]),
                                  !["total"] = Some(t),
                                  !["request_size"] = Some(size),
                                  !["log"] = v["log"]]
              IN  IF size = 0
                  THEN [m1 EXCEPT !["raised"] = "ZeroDivisionError"]
                  ELSE [m1 EXCEPT !["request_num"] = Some(CeilDiv(t, size)),
                                  !["ingest"] = Some(NewIngest(CeilDiv(t, size))),
                                  !["raised"] = "ok"]

(* The throughput line of run divides by the elapsed time.                 *)
MetricsRaises(elapsed) == elapsed = 0

(* run from the return of gather on (line 198 to the end): the Ingest      *)
(* object afterwards, data_to_persist, what was logged, how the call ended.*)
RunTail(ing, e, v, save, elapsed) ==
    LET val == IngestValidate(ing)
        ing1 == [ing EXCEPT !["data_validated"] = val["data_validated"]]
    IN  IF val["raised"] # "ok"
        THEN [ingest |-> ing1, persisted |-> <<>>, log |-> val["log"],
              raised |-> val["raised"]]
        ELSE IF MetricsRaises(elapsed)
        THEN [ingest |-> ing1, persisted |-> <<>>, log |-> val["log"],
              raised |-> "ZeroDivisionError"]
        ELSE LET lg == Append(val["log"], LogInfo("All fetches completed")) IN
             IF ~save
             THEN [ingest |-> ing1, persisted |-> <<>>, log |-> lg, raised |-> "ok"]
             ELSE IF EndpointBuilderMap(e) = None
             THEN [ingest |-> ing1, persisted |-> <<>>, log |-> lg,
                   raised |-> "ValueError"]
             ELSE LET mp == MapLoop(EndpointBuilderMap(e)[1],
                                    ing1["data_validated"], v, 1, <<>>)
                  IN  [ingest |-> ing1, persisted |-> mp["value"], log |-> lg,
                       raised |-> mp["raised"]]

-----------------------------------------------------------------------------
(* The inputs tried.                                                       *)

SizeArgs == (0..MaxSize) \cup {ExampleSize}
TotalArgs == {None} \cup {Some(t) : t \in (0..MaxTotal) \cup {95, 100}}
StartPages == 1..MaxStart
Elapsed == 0..MaxElapsed
VersionIds == {3}

(* The call in progress. A call's other arguments (total of configure,     *)
(* save of run) are locals that nothing reads before the await returns:    *)
(* they are drawn where the code first reads them.                         *)
NoCall == [op |-> "none", endpoint |-> "USERS", size |-> 0, start_page |-> 0]

(* What the server sends for a query: srv is the size of its collection.   *)
Outcomes(e, p, s, srv) ==
    FailureOutcomes \cup
    {JsonArray, JsonObject(WirePage(e, p, 0, s, srv)),
     JsonObject(WirePage(e, p, PageLen(s), s, srv))}

Query(e, p, s) == [endpoint |-> EndpointValue(e), page |-> p, size |-> s]

Queries(e, ts) == [i \in 1..Len(ts) |-> Query(e, ts[i]["page"], ts[i]["size"])]

-----------------------------------------------------------------------------
(* The state after construction.                                           *)

(* IngestManager.__init__: nothing is configured.                          *)
InitCommon ==
    /\ endpoint \in Endpoints
    /\ version_id \in VersionIds
    /\ request_size = None
    /\ request_num = None
    /\ pages = None
    /\ total = None
    /\ pc = "idle"
    /\ call = NoCall
    /\ tasks = <<>>
    /\ raised = "ok"
    /\ log = <<>>
    /\ launched = <<>>
    /\ nfetch = 0
    /\ persisted = <<>>
    /\ read_args = [total |-> None, save |-> FALSE]
    /\ outoforder = FALSE
    /\ history = <<>>

Init ==
    /\ InitCommon
    /\ server \in ServerTotals
    /\ ingest = None

(* A fresh Ingest(client, validator, request_num) used on its own.         *)
InitIngest ==
    /\ InitCommon
    /\ server = MaxServer
    /\ \E rn \in 0..MaxFetches : ingest = Some(NewIngest(rn))

-----------------------------------------------------------------------------
(* Ingest used on its own: execute, then validate.                         *)

(* execute up to its await: the coroutines are created, then gathered.     *)
ExecuteStart(e, size, sp) ==
    /\ pc = "idle"
    /\ ingest # None
    /\ tasks' = ExecuteTasks(ingest[1]["request_num"], size, sp)
    /\ launched' = Queries(e, tasks')
    /\ nfetch' = nfetch + Len(tasks')
    /\ log' = <<>>
    /\ call' = [NoCall EXCEPT !["op"] = "execute", !["endpoint"] = e,
                              !["size"] = size, !["start_page"] = sp]
    /\ pc' = "gather"
    /\ history' = Append(history, "execute")
    /\ outoforder' = FALSE
    /\ UNCHANGED <<endpoint, version_id, server, ingest, request_size, request_num,
                   pages, total, raised, persisted, read_args>>

ExecuteCall ==
    \E size \in 1..MaxSize, sp \in StartPages :
        /\ Len(history) < MaxCalls
        /\ nfetch + ingest[1]["request_num"] <= MaxFetches
        /\ ExecuteStart(endpoint, size, sp)

(* A fetch that appends its result to data_raw as soon as it finishes: the *)
(* fault C21 rules out.                                                    *)
FetchFinishWritesRaw(i, outcome) ==
    /\ pc = "gather"
    /\ i \in 1..Len(tasks)
    /\ ~tasks[i]["done"]
    /\ \E f \in {Fetch(outcome, tasks[i]["page"])} :
        IF f["raised"] = "ok"
        THEN /\ tasks' = [tasks EXCEPT ![i]["done"] = TRUE,
                                       ![i]["result"] = f["value"]]
             /\ ingest' = Some([ingest[1] EXCEPT
                                  !["data_raw"] = Append(@, f["value"])])
             /\ log' = log \o f["log"]
             /\ outoforder' = (outoforder \/ \E j \in 1..(i - 1) : ~tasks[j]["done"])
             /\ UNCHANGED <<pc, call, raised>>
        ELSE /\ pc' = "idle"
             /\ call' = NoCall
             /\ raised' = f["raised"]
             /\ log' = log \o f["log"]
             /\ UNCHANGED <<ingest, tasks, outoforder>>
    /\ UNCHANGED <<endpoint, version_id, server, request_size, request_num,
                   pages, total, launched, nfetch, persisted, read_args, history>>

(* One of the gathered fetches finishes: fetch returns what the exchange   *)
(* gave, or None.                                                          *)
FetchFinish(i, outcome) ==
    /\ pc = "gather"
    /\ i \in 1..Len(tasks)
    /\ ~tasks[i]["done"]
    /\ \E f \in {Fetch(outcome, tasks[i]["page"])} :
        IF f["raised"] = "ok"
        THEN /\ tasks' = [tasks EXCEPT ![i]["done"] = TRUE,
                                       ![i]["result"] = f["value"]]
             /\ log' = log \o f["log"]
             /\ outoforder' = (outoforder \/ \E j \in 1..(i - 1) : ~tasks[j]["done"])
             /\ UNCHANGED <<pc, call, raised>>
        \* gather hands the first exception to the caller awaiting it
        ELSE /\ pc' = "idle"
             /\ call' = NoCall
             /\ raised' = f["raised"]
             /\ log' = log \o f["log"]
             /\ UNCHANGED <<tasks, outoforder>>
    /\ UNCHANGED <<endpoint, version_id, server, ingest, request_size, request_num,
                   pages, total, launched, nfetch, persisted, read_args, history>>

FetchComplete ==
    \E i \in 1..Len(tasks) :
        \E outcome \in Outcomes(call["endpoint"], tasks[i]["page"], tasks[i]["size"],
                                server) :
            FetchFinish(i, outcome)

(* gather returns: data_raw is assigned and execute returns it.            *)
ExecuteReturn ==
    /\ pc = "gather"
    /\ call["op"] = "execute"
    /\ GatherDone(tasks)
    /\ ingest' = Some([ingest[1] EXCEPT !["data_raw"] = GatherResults(tasks)])
    /\ pc' = "idle"
    /\ call' = NoCall
    /\ raised' = "ok"
    /\ UNCHANGED <<endpoint, version_id, server, request_size, request_num, pages,
                   total, tasks, log, launched, nfetch, persisted, read_args,
                   outoforder, history>>

(* Ingest.validate, the whole loop.                                        *)
ValidateCall ==
    /\ pc = "idle"
    /\ ingest # None
    /\ Len(history) < MaxCalls
    /\ \E val \in {IngestValidate(ingest[1])} :
        /\ ingest' = Some([ingest[1] EXCEPT
                             !["data_validated"] = val["data_validated"]])
        /\ log' = val["log"]
        /\ raised' = val["raised"]
    /\ launched' = <<>>
    /\ history' = Append(history, "validate")
    /\ UNCHANGED <<endpoint, version_id, server, request_size, request_num, pages,
                   total, pc, call, tasks, nfetch, persisted, read_args,
                   outoforder>>

NextIngest == ExecuteCall \/ FetchComplete \/ ExecuteReturn \/ ValidateCall

SpecIngest == InitIngest /\ [][NextIngest]_vars

-----------------------------------------------------------------------------
(* IngestManager: configure, then run.                                     *)

(* configure up to its await: the probe fetch for page 1 is issued.        *)
ConfigureStart(size) ==
    /\ pc = "idle"
    /\ launched' = <<Query(endpoint, 1, size)>>
    /\ nfetch' = nfetch + 1
    /\ log' = <<>>
    /\ call' = [NoCall EXCEPT !["op"] = "configure", !["endpoint"] = endpoint,
                              !["size"] = size]
    /\ pc' = "probe"
    /\ tasks' = <<>>
    /\ history' = Append(history, "configure")
    /\ outoforder' = FALSE
    /\ UNCHANGED <<endpoint, version_id, server, ingest, request_size, request_num,
                   pages, total, raised, persisted, read_args>>

ConfigureCall ==
    \E size \in SizeArgs :
        /\ Len(history) < MaxCalls
        /\ nfetch < MaxFetches
        /\ ConfigureStart(size)

(* The probe fetch finishes and configure runs to its end.                 *)
ConfigureFinish(outcome, tot) ==
    /\ pc = "probe"
    /\ \E f \in {Fetch(outcome, 1)} :
        IF f["raised"] # "ok"
        THEN /\ raised' = f["raised"]
             /\ log' = log \o f["log"]
             /\ UNCHANGED <<pages, total, request_size, request_num, ingest>>
        ELSE \E m \in {ConfigureTail([pages |-> pages, total |-> total,
                                      request_size |-> request_size,
                                      request_num |-> request_num, ingest |-> ingest,
                                      raised |-> "ok", log |-> <<>>],
                                     f["value"], call["size"], tot)} :
               /\ pages' = m["pages"]
               /\ total' = m["total"]
               /\ request_size' = m["request_size"]
               /\ request_num' = m["request_num"]
               /\ ingest' = m["ingest"]
               /\ raised' = m["raised"]
               /\ log' = log \o f["log"] \o m["log"]
    /\ read_args' = [read_args EXCEPT !["total"] = tot]
    /\ pc' = "idle"
    /\ call' = NoCall
    /\ UNCHANGED <<endpoint, version_id, server, tasks, launched, nfetch, persisted,
                   outoforder, history>>

(* configure reads its argument total only at line 167, once the probe was *)
(* fetched and validated.                                                  *)
TotalRead(outcome) ==
    LET f == Fetch(outcome, 1) IN
    IF f["raised"] = "ok" /\ f["value"] # FetchNone
       /\ ValidatorValidate(f["value"])["raised"] = "ok"
       /\ ValidatorValidate(f["value"])["value"] # None
    THEN TotalArgs
    ELSE {read_args["total"]}

ConfigureReturn ==
    \E outcome \in Outcomes(endpoint, 1, call["size"], server) :
        \E tot \in TotalRead(outcome) :
            ConfigureFinish(outcome, tot)

(* run on a Manager that was never configured: self.ingest is None.        *)
RunUnconfigured ==
    /\ pc = "idle"
    /\ ingest = None
    /\ Len(history) < MaxCalls
    /\ raised' = "AttributeError"
    /\ log' = <<>>
    /\ launched' = <<>>
    /\ history' = Append(history, "run")
    /\ UNCHANGED <<endpoint, version_id, server, ingest, request_size, request_num,
                   pages, total, pc, call, tasks, nfetch, persisted, read_args,
                   outoforder>>

(* run up to its await: execute creates and gathers the fetches.           *)
RunStart ==
    /\ pc = "idle"
    /\ ingest # None
    /\ tasks' = ExecuteTasks(ingest[1]["request_num"], request_size[1], 1)
    /\ launched' = Queries(endpoint, tasks')
    /\ nfetch' = nfetch + Len(tasks')
    /\ log' = <<>>
    /\ call' = [NoCall EXCEPT !["op"] = "run", !["endpoint"] = endpoint,
                              !["size"] = request_size[1], !["start_page"] = 1]
    /\ pc' = "gather"
    /\ history' = Append(history, "run")
    /\ outoforder' = FALSE
    /\ UNCHANGED <<endpoint, version_id, server, ingest, request_size, request_num,
                   pages, total, raised, persisted, read_args>>

RunCall ==
    /\ Len(history) < MaxCalls
    /\ ingest # None
    /\ nfetch + ingest[1]["request_num"] <= MaxFetches
    /\ RunStart

(* gather returns and run goes on to its end: validate, the throughput     *)
(* line, the mapping.                                                      *)
RunFinish(save, elapsed) ==
    /\ pc = "gather"
    /\ call["op"] = "run"
    /\ GatherDone(tasks)
    /\ \E r \in {RunTail([ingest[1] EXCEPT !["data_raw"] = GatherResults(tasks)],
                          endpoint, version_id, save, elapsed)} :
           /\ ingest' = Some(r["ingest"])
           /\ persisted' = r["persisted"]
           /\ log' = log \o r["log"]
           /\ raised' = r["raised"]
    /\ read_args' = [read_args EXCEPT !["save"] = save]
    /\ pc' = "idle"
    /\ call' = NoCall
    /\ UNCHANGED <<endpoint, version_id, server, request_size, request_num, pages,
                   total, tasks, launched, nfetch, outoforder, history>>

RunReturn == \E save \in BOOLEAN, elapsed \in Elapsed : RunFinish(save, elapsed)

Next ==
    \/ ConfigureCall
    \/ ConfigureReturn
    \/ RunUnconfigured
    \/ RunCall
    \/ FetchComplete
    \/ RunReturn

Spec == Init /\ [][Next]_vars

-----------------------------------------------------------------------------
(* The worked example of the spec: an Executor of ExamplePages pages whose *)
(* fetches either fail or bring a full page of ExampleSize records.        *)

InitExample ==
    /\ InitCommon
    /\ server = ExamplePages * ExampleSize
    /\ ingest = Some(NewIngest(ExamplePages))

ExampleExecute ==
    /\ history = <<>>
    /\ ExecuteStart(endpoint, ExampleSize, 1)

ExampleFetch ==
    \E i \in 1..Len(tasks) :
        \E outcome \in FailureOutcomes \cup
                {JsonObject(WirePage(call["endpoint"], tasks[i]["page"], ExampleSize,
                                     ExampleSize, server))} :
            FetchFinish(i, outcome)

NextExample == ExampleExecute \/ ExampleFetch \/ ExecuteReturn \/ ValidateCall

SpecExample == InitExample /\ [][NextExample]_vars

-----------------------------------------------------------------------------
(* A Manager configured for one page of one record, whose run is answered  *)
(* with any payload of a set of well-formed and ill-formed ones, for a     *)
(* registered or a foreign endpoint and a valid or an invalid version_id.  *)

UserA == [id |-> IntV(7), first_name |-> StrV(1)]
IdOnly == [id |-> IntV(1)]
TrackB == [id |-> IntV(2), name |-> StrV(2), artist |-> StrV(3)]
ListenC == [user_id |-> IntV(3), items |-> ListV(<<IntV(4), IntV(5)>>)]
ListenBare == [user_id |-> IntV(3)]
Stamped == [id |-> IntV(1), created_at |-> StrV(4), updated_at |-> NoneV]

WellFormedItems == {UserA, IdOnly, TrackB, ListenC, ListenBare, Stamped}

OtherItems ==
    {[id |-> IntV(0)], [id |-> IntV(0 - 1)], [id |-> StrV(1)], [id |-> NumStrV(5)],
     [id |-> NoneV], [first_name |-> StrV(1)],
     [id |-> IntV(1), first_name |-> IntV(1)],
     [id |-> IntV(1), user_id |-> IntV(1)],
     [user_id |-> IntV(0)], [user_id |-> NumStrV(5)],
     [user_id |-> IntV(1), items |-> ListV(<<>>)],
     [user_id |-> IntV(1), items |-> ListV(<<IntV(0)>>)],
     [user_id |-> IntV(1), items |-> ListV(<<IntV(0 - 1)>>)],
     [user_id |-> IntV(1), items |-> ListV(<<StrV(1)>>)],
     [user_id |-> IntV(1), items |-> ListV(<<NumStrV(5)>>)]}

PayloadLists ==
    {<<>>} \cup {<<a>> : a \in WellFormedItems \cup OtherItems}
           \cup {<<a, b>> : a, b \in WellFormedItems}

Envelope(items) ==
    [total |-> IntV(1), page |-> IntV(1), size |-> IntV(1), pages |-> IntV(1),
     items |-> ListV(items)]

OtherInts == {IntV(0), IntV(0 - 1), StrV(1), NumStrV(5), NoneV}

Without(obj, f) == [g \in DOMAIN obj \ {f} |-> obj[g]]

Payloads ==
    {Envelope(l) : l \in PayloadLists}
    \cup {[Envelope(l) EXCEPT ![f] = v] :
            f \in EnvelopeInts, v \in OtherInts, l \in {<<UserA>>, <<>>}}
    \cup {Without(Envelope(<<UserA>>), f) : f \in EnvelopeInts \cup {"items"}}
    \cup {[Envelope(<<>>) EXCEPT !["items"] = NoneV]}

PayloadVersionIds == {0 - 1, 0, 3}

(* The state a successful configure(1) leaves, the probe having reported   *)
(* one record.                                                             *)
InitPayload ==
    /\ endpoint \in Endpoints \cup {ForeignEndpoint}
    /\ version_id \in PayloadVersionIds
    /\ server = 1
    /\ request_size = Some(1)
    /\ request_num = Some(1)
    /\ pages = Some(1)
    /\ total = Some(1)
    /\ ingest = Some(NewIngest(1))
    /\ pc = "idle"
    /\ call = NoCall
    /\ tasks = <<>>
    /\ raised = "ok"
    /\ log = <<>>
    /\ launched = <<Query(endpoint, 1, 1)>>
    /\ nfetch = 1
    /\ persisted = <<>>
    /\ read_args = [total |-> None, save |-> FALSE]
    /\ outoforder = FALSE
    /\ history = <<"configure">>

PayloadRun ==
    /\ history = <<"configure">>
    /\ RunStart

PayloadFetch == \E p \in Payloads : FetchFinish(1, JsonObject(p))

NextPayload == PayloadRun \/ PayloadFetch \/ RunReturn

SpecPayload == InitPayload /\ [][NextPayload]_vars

-----------------------------------------------------------------------------
(* Vocabulary of the properties.                                           *)

Last(s) == s[Len(s)]

RECURSIVE Flatten(_)
Flatten(seqs) == IF seqs = <<>> THEN <<>> ELSE Head(seqs) \o Flatten(Tail(seqs))

(* A raw result that is a payload passing schema validation.               *)
PassesValidation(r) == r["kind"] = "object" /\ ApiSchemaOk(r["body"])

(* A raw result that is a payload failing schema validation.               *)
FailsValidation(r) == r["kind"] = "object" /\ ~ApiSchemaOk(r["body"])

(* The records a raw result contributes: its items when it is a payload    *)
(* that passes validation, nothing otherwise.                              *)
Contribution(r) == IF PassesValidation(r) THEN ApiSchema(r["body"])["items"] ELSE <<>>

Contributions(raw) == Flatten([i \in 1..Len(raw) |-> Contribution(raw[i])])

Returned(op) == pc = "idle" /\ history # <<>> /\ Last(history) = op

-----------------------------------------------------------------------------
(* C1: after execute followed by one validate on a fresh Executor,         *)
(* data_validated is the concatenation, in page order and then item order, *)
(* of the items of exactly the pages that were fetched and passed          *)
(* validation; a page that failed either step contributes nothing.         *)
(* Ingest.validate breaks this: a payload that fails validation ends the   *)
(* loop with an AttributeError and the pages after it are never appended.  *)
C1_ValidatedIsGoodPagesInOrder ==
    (pc = "idle" /\ history = <<"execute", "validate">>) =>
        ingest[1]["data_validated"] = Contributions(ingest[1]["data_raw"])

(* C2: a payload that fails validation during run is logged, contributes   *)
(* nothing, lets no exception out, and the later pages are still           *)
(* validated. The code raises AttributeError at the failing page.          *)
C2_InvalidPageIsContained ==
    (Returned("run") /\ ingest # None
        /\ \E i \in 1..Len(ingest[1]["data_raw"]) :
              FailsValidation(ingest[1]["data_raw"][i])) =>
        /\ raised # "AttributeError"
        /\ LogError("Validation failed", 0) \in Range(log)
        /\ \A j \in 1..Len(ingest[1]["data_raw"]) :
              Range(Contribution(ingest[1]["data_raw"][j]))
                  \subseteq Range(ingest[1]["data_validated"])

(* C3: validate skips an absent page with a warning and appends the items  *)
(* of every other page: data_validated is the items of the pages present,  *)
(* in page order, one warning is logged for each absent page, and with     *)
(* only page ExampleAbsent absent exactly (ExamplePages - 1) * ExampleSize *)
(* records (40) are validated.                                             *)
AbsentPages == {i \in 1..Len(ingest[1]["data_raw"]) : ingest[1]["data_raw"][i] = FetchNone}

C3_AbsentPageIsSkipped ==
    (pc = "idle" /\ history = <<"execute", "validate">>) =>
        /\ raised = "ok"
        /\ ingest[1]["data_validated"] = Contributions(ingest[1]["data_raw"])
        /\ Len(ingest[1]["data_validated"])
              = ExampleSize * (ExamplePages - Cardinality(AbsentPages))
        /\ Len(SelectSeq(log, LAMBDA l : l = LogWarning("Fetched data is invalid.")))
              = Cardinality(AbsentPages)
        /\ AbsentPages = {ExampleAbsent} =>
              Len(ingest[1]["data_validated"]) = (ExamplePages - 1) * ExampleSize

C3_Witness ==
    /\ pc = "idle"
    /\ history = <<"execute", "validate">>
    /\ AbsentPages = {ExampleAbsent}
    /\ Len(ingest[1]["data_validated"]) = (ExamplePages - 1) * ExampleSize
    /\ LogWarning("Fetched data is invalid.") \in Range(log)


(* C4: in execute, a fetch whose exchange fails (its error line is logged) *)
(* puts None in its page's slot and raises nothing: the batch goes on, no  *)
(* sibling's state or result changes, and execute returns normally with    *)
(* None in exactly the slots of the pages whose error line was logged.     *)
FetchFailed(lg, page) == LogError("Error making request", page) \in Range(lg)

C4_FailedFetchYieldsAbsent ==
    /\ [](Returned("execute") =>
            /\ raised = "ok"
            /\ Len(ingest[1]["data_raw"]) = Len(tasks)
            /\ \A i \in 1..Len(tasks) :
                  FetchFailed(log, tasks[i]["page"])
                      <=> ingest[1]["data_raw"][i] = FetchNone)
    /\ [][\A i \in 1..Len(tasks) :
            (pc = "gather" /\ ~tasks[i]["done"] /\ tasks'[i]["done"]) =>
                /\ pc' = "gather"
                /\ raised' = raised
                /\ FetchFailed(log', tasks[i]["page"])
                      <=> tasks'[i]["result"] = FetchNone
                /\ \A j \in 1..Len(tasks) : j # i => tasks'[j] = tasks[j]]_vars

C4_Witness ==
    /\ pc = "gather"
    /\ call["op"] = "execute"
    /\ \E i, j \in 1..Len(tasks) :
          /\ tasks[i]["done"]
          /\ tasks[i]["result"] = FetchNone
          /\ FetchFailed(log, tasks[i]["page"])
          /\ tasks[j]["done"]
          /\ PassesValidation(tasks[j]["result"])
    /\ \E k \in 1..Len(tasks) : ~tasks[k]["done"]

(* C5: whatever the order in which the fetches finish, execute returns and *)
(* stores the result of page start_page + i at index i (counting from 0),  *)
(* and the records validate then appends are those of the pages in page    *)
(* order.                                                                  *)
PageResult(p) == tasks[CHOOSE k \in 1..Len(tasks) : tasks[k]["page"] = p]["result"]

C5_ResultsInPageOrder ==
    /\ [][(pc = "gather" /\ pc' = "idle" /\ call["op"] = "execute") =>
            /\ Len(ingest'[1]["data_raw"]) = Len(tasks)
            /\ \A i \in 1..Len(tasks) :
                  /\ \E k \in 1..Len(tasks) : tasks[k]["page"] = call["start_page"] + i - 1
                  /\ ingest'[1]["data_raw"][i] = PageResult(call["start_page"] + i - 1)]_vars
    /\ []((pc = "idle" /\ history = <<"execute", "validate">> /\ raised = "ok"
            /\ tasks # <<>>) =>
            LET first == CHOOSE p \in {tasks[k]["page"] : k \in 1..Len(tasks)} :
                            \A k \in 1..Len(tasks) : p <= tasks[k]["page"]
            IN  ingest[1]["data_validated"] =
                    Flatten([i \in 1..Len(tasks) |->
                                Contribution(PageResult(first + i - 1))]))

C5_Witness ==
    /\ pc = "idle"
    /\ history = <<"execute", "validate">>
    /\ raised = "ok"
    /\ outoforder
    /\ Len(ingest[1]["data_raw"]) >= 2
    /\ ingest[1]["data_raw"][1] # ingest[1]["data_raw"][2]
    /\ ingest[1]["data_validated"] # <<>>

(* C6: execute(endpoint, size, start_page) launches exactly one fetch for  *)
(* each page n of [start_page, request_num], with query {page: n, size},   *)
(* all of them before any has run, none after, and returns only when every *)
(* one of them has finished.                                               *)
C6_OneFetchPerPage ==
    /\ []((pc = "gather" /\ call["op"] = "execute") =>
            LET wanted == call["start_page"]..ingest[1]["request_num"] IN
            /\ Len(launched) = Cardinality(wanted)
            /\ Len(tasks) = Len(launched)
            /\ \A n \in wanted :
                  Cardinality({k \in 1..Len(launched) :
                      launched[k] = Query(call["endpoint"], n, call["size"])}) = 1)
    /\ [][/\ (pc = "idle" /\ pc' = "gather") =>
                \A i \in 1..Len(tasks') : ~tasks'[i]["done"]
          /\ pc = "gather" => launched' = launched
          /\ (pc = "gather" /\ pc' = "idle") => GatherDone(tasks)]_vars

C6_Witness ==
    /\ Returned("execute")
    /\ Len(launched) >= 2
    /\ launched[1]["page"] = 2
    /\ GatherDone(tasks)
    /\ Len(ingest[1]["data_raw"]) = Len(launched)

(* C7: when the probe of configure comes back None, configure raises      *)
(* ConnectionError and changes none of ingest, pages, total, request_size  *)
(* and request_num: on a Manager never configured before, no Ingest is     *)
(* constructed and every one of them is still unset.                       *)
ProbeAbsent(lg) == FetchFailed(lg, 1)

C7_AbsentProbeIsConnectionError ==
    /\ []((Returned("configure") /\ ProbeAbsent(log)) =>
            /\ raised = "ConnectionError"
            /\ LogError("Test connection failed", 0) \in Range(log)
            /\ history = <<"configure">> =>
                  /\ ingest = None
                  /\ pages = None
                  /\ total = None
                  /\ request_size = None
                  /\ request_num = None)
    /\ [][(pc = "probe" /\ pc' = "idle" /\ ProbeAbsent(log')) =>
            /\ raised' = "ConnectionError"
            /\ UNCHANGED <<ingest, pages, total, request_size, request_num>>]_vars

C7_Witness ==
    /\ Returned("configure")
    /\ history = <<"configure">>
    /\ ProbeAbsent(log)
    /\ raised = "ConnectionError"
    /\ ingest = None
    /\ request_size = None

(* C8: when the probe's payload fails schema validation, configure ends    *)
(* with an exception that reaches the caller and changes none of ingest,   *)
(* pages, total, request_size and request_num: no Ingest is constructed    *)
(* and nothing of the configuration is kept.                               *)
ProbeInvalid(lg) == LogError("Validation failed", 0) \in Range(lg)

C8_InvalidProbeIsFatal ==
    /\ []((Returned("configure") /\ ProbeInvalid(log)) =>
            /\ raised # "ok"
            /\ history = <<"configure">> =>
                  /\ ingest = None
                  /\ pages = None
                  /\ total = None
                  /\ request_size = None
                  /\ request_num = None)
    /\ [][(pc = "probe" /\ pc' = "idle" /\ ProbeInvalid(log')) =>
            /\ raised' # "ok"
            /\ UNCHANGED <<ingest, pages, total, request_size, request_num>>]_vars

C8_Witness ==
    /\ Returned("configure")
    /\ history = <<"configure">>
    /\ ProbeInvalid(log)
    /\ raised = "AttributeError"
    /\ ingest = None
    /\ request_size = None

(* C9: after a successful configure, the page count of the Ingest is the   *)
(* least n with n * request_size >= total_records, where total_records is  *)
(* the total that was passed (0 included) and the probe's total when none  *)
(* was passed: 95 and 10 give 10, 100 and 10 give 10, 0 gives 0.           *)
TotalRecords == IF read_args["total"] = None THEN server ELSE read_args["total"][1]

C9_PageCountIsCeiling ==
    (Returned("configure") /\ raised = "ok") =>
        LET n == ingest[1]["request_num"]
            size == request_size[1]
        IN  /\ total = Some(TotalRecords)
            /\ request_num = Some(n)
            /\ n * size >= TotalRecords
            /\ (n - 1) * size < TotalRecords
            /\ (TotalRecords = 95 /\ size = 10) => n = 10
            /\ (TotalRecords = 100 /\ size = 10) => n = 10
            /\ TotalRecords = 0 => n = 0

C9_Witness ==
    /\ Returned("configure")
    /\ raised = "ok"
    /\ read_args["total"] = Some(95)
    /\ request_size = Some(10)
    /\ ingest[1]["request_num"] = 10

(* C10: after a configure that was passed total = 0 and succeeded, run     *)
(* issues no fetch, validates no record and raises nothing. The code       *)
(* raises ZeroDivisionError at the throughput line when the two clock      *)
(* readings of run are equal.                                              *)
C10_EmptyRunCompletes ==
    (Returned("run") /\ history = <<"configure", "run">> /\ ingest # None
        /\ read_args["total"] = Some(0)) =>
        /\ launched = <<>>
        /\ ingest[1]["data_raw"] = <<>>
        /\ ingest[1]["data_validated"] = <<>>
        /\ raised = "ok"

(* C11: a Manager goes Unconfigured -> Configured -> Run(complete) and not  *)
(* back: a run starts its ingestion only on a configured Manager, and one  *)
(* configuration drives one run, so no run starts right after a run that   *)
(* completed, on the Ingest that run used. The code has no such guard: a   *)
(* second run starts on the same Ingest.                                   *)
C11_OneRunPerConfiguration ==
    [][(pc = "idle" /\ pc' = "gather" /\ call'["op"] = "run") =>
          /\ ingest # None
          /\ ~(Returned("run") /\ raised = "ok")]_vars

(* C12: when run(save=True) returns, data_to_persist has the length and    *)
(* the order of data_validated, and its i-th element is what the endpoint's*)
(* build function makes of the i-th validated record and the Manager's     *)
(* version_id: the record's fields unchanged, and that version_id.         *)
Validated == ingest[1]["data_validated"]

C12_PersistedIsMappedInOrder ==
    (Returned("run") /\ read_args["save"] /\ raised = "ok") =>
        /\ EndpointBuilderMap(endpoint) # None
        /\ Len(persisted) = Len(Validated)
        /\ \A i \in 1..Len(Validated) :
              /\ persisted[i] =
                    BuildDataSchema(EndpointBuilderMap(endpoint)[1], Validated[i],
                                    version_id)["value"][1]
              /\ persisted[i]["version_id"] = IntV(version_id)
              /\ \A f \in DOMAIN Validated[i] \ {"variant"} :
                    persisted[i][f] = Validated[i][f]

C12_Witness ==
    /\ Returned("run")
    /\ read_args["save"]
    /\ raised = "ok"
    /\ Len(Validated) = 2
    /\ Len(persisted) = 2
    /\ persisted[1] # persisted[2]
    /\ persisted[1]["id"] = Validated[1]["id"]

(* C13: mapping cannot fail for a record that passed validation: for a     *)
(* registered endpoint and a valid version_id, when the page run fetched   *)
(* passed validation and every item of it is a record of the endpoint's    *)
(* own type, run(save=True) maps every record and no exception comes out   *)
(* of the mapping. In the code the Union may validate the item as another  *)
(* type (a track with no optional attribute becomes a UserSchema) and the  *)
(* endpoint's build function then reads an attribute the record lacks.     *)
RawPage == ingest[1]["data_raw"][1]

OfEndpointType(item) ==
    /\ EndpointBuilderMap(endpoint) # None
    /\ DOMAIN item \subseteq FieldNames(EndpointBuilderMap(endpoint)[1])
    /\ SchemaOk(EndpointBuilderMap(endpoint)[1], item)

C13_MappingCannotFail ==
    (/\ Returned("run")
     /\ read_args["save"]
     /\ version_id > 0
     /\ Len(ingest[1]["data_raw"]) = 1
     /\ PassesValidation(RawPage)
     /\ \A i \in 1..Len(RawPage["body"]["items"][2]) :
           OfEndpointType(RawPage["body"]["items"][2][i])) =>
        /\ raised \notin {"AttributeError", "ValidationError", "ValueError"}
        /\ raised = "ok" => Len(persisted) = Len(Validated)

(* C14: the build function of each record type returns the data record of  *)
(* the same type, with every field of the input record (created_at and     *)
(* updated_at included) unchanged, the given version_id and nothing else;  *)
(* the User validated from {id: 7, first_name: "A"} and mapped with        *)
(* version_id 3 has id 7, first_name "A", version_id 3 and None elsewhere. *)
MappedUserA ==
    [variant |-> <<"class", "UserData">>, id |-> IntV(7), first_name |-> StrV(1),
     last_name |-> NoneV, email |-> NoneV, gender |-> NoneV,
     favorite_genres |-> NoneV, created_at |-> NoneV, updated_at |-> NoneV,
     version_id |-> IntV(3)]

C14_MappedRecordCopiesFields ==
    (Returned("run") /\ read_args["save"] /\ raised = "ok") =>
        /\ \A i \in 1..Len(persisted) :
              /\ persisted[i]["variant"] = <<"class", Validated[i]["variant"][2] \o "Data">>
              /\ DOMAIN persisted[i] = DOMAIN Validated[i] \cup {"version_id"}
              /\ persisted[i]["created_at"] = Validated[i]["created_at"]
              /\ persisted[i]["updated_at"] = Validated[i]["updated_at"]
              /\ \A f \in DOMAIN Validated[i] \ {"variant"} :
                    persisted[i][f] = Validated[i][f]
              /\ persisted[i]["version_id"] = IntV(version_id)
        /\ (version_id = 3 /\ RawPage["body"]["items"] = ListV(<<UserA>>)) =>
              persisted = <<MappedUserA>>

C14_Witness ==
    /\ Returned("run")
    /\ read_args["save"]
    /\ raised = "ok"
    /\ endpoint = "USERS"
    /\ version_id = 3
    /\ RawPage["body"]["items"] = ListV(<<UserA>>)
    /\ persisted = <<MappedUserA>>

(* C15: run reaches its end whether or not save was asked for and whether  *)
(* or not any record was validated; with no record validated (no page was  *)
(* asked for, or every fetch came back None) the mapping of run(save=True) *)
(* does nothing and raises nothing. The code raises ZeroDivisionError at   *)
(* the throughput line before the mapping when the elapsed time is zero.   *)
NothingFetched ==
    \A i \in 1..Len(ingest[1]["data_raw"]) : ingest[1]["data_raw"][i] = FetchNone

C15_EmptyPersistIsNoOp ==
    (Returned("run") /\ history = <<"configure", "run">> /\ ingest # None
        /\ NothingFetched) =>
        /\ raised = "ok"
        /\ Validated = <<>>
        /\ persisted = <<>>

(* C16: a build function is registered for every member of Endpoints, so   *)
(* run never raises ValueError for one of them; and when run(save=True)    *)
(* gets to the mapping with an endpoint that has no build function, it     *)
(* raises ValueError to its caller before any record is mapped (whatever   *)
(* the records and the version_id are) and fetches nothing again.          *)
ReachedPersistStep == read_args["save"] /\ LogInfo("All fetches completed") \in Range(log)

C16_DispatchIsExhaustive ==
    Returned("run") =>
        /\ raised = "ValueError" => endpoint \notin Endpoints
        /\ (ReachedPersistStep /\ endpoint \in Endpoints) =>
              EndpointBuilderMap(endpoint) # None
        /\ (ReachedPersistStep /\ endpoint \notin Endpoints) =>
              /\ raised = "ValueError"
              /\ persisted = <<>>
              /\ Len(launched) = 1
              /\ nfetch = 2

C16_Witness ==
    /\ Returned("run")
    /\ ReachedPersistStep
    /\ endpoint = ForeignEndpoint
    /\ raised = "ValueError"
    /\ Validated # <<>>
    /\ version_id = 0

(* C17: a payload whose items is an empty list fails validation, with an   *)
(* error about the minimum number of items among its errors: the validator *)
(* logs the failure and returns no envelope, nothing is validated from it, *)
(* and whatever envelope the validator does return has at least one item.  *)
HasItems(r) ==
    r["kind"] = "object" /\ "items" \in DOMAIN r["body"] /\ r["body"]["items"][1] = "list"

C17_EmptyItemsFailsValidation ==
    (Returned("run") /\ HasItems(RawPage)) =>
        LET v == ValidatorValidate(RawPage) IN
        /\ Len(RawPage["body"]["items"][2]) = 0 =>
              /\ <<"items", "too_short">> \in ApiSchemaErrors(RawPage["body"])
              /\ v["value"] = None
              /\ LogError("Validation failed", 0) \in Range(log)
              /\ Validated = <<>>
        /\ v["value"] # None => Len(v["value"][1]["items"]) >= 1
        /\ (v["value"] # None) <=> (ApiSchemaErrors(RawPage["body"]) = {})

C17_Witness ==
    /\ Returned("run")
    /\ RawPage = JsonObject(Envelope(<<>>))
    /\ ApiSchemaErrors(RawPage["body"]) = {<<"items", "too_short">>}
    /\ LogError("Validation failed", 0) \in Range(log)
    /\ Validated = <<>>

(* C18: a payload whose total, page, size and pages are positive integers  *)
(* and whose items is a list of at least one well-typed record passes      *)
(* validation, and the envelope has as many items as the payload, in the   *)
(* same order: the i-th validated item holds the values of the i-th input. *)
WellTypedPayload(r) ==
    /\ HasItems(r)
    /\ \A f \in EnvelopeInts :
          f \in DOMAIN r["body"] /\ r["body"][f][1] = "int" /\ r["body"][f][2] > 0
    /\ Len(r["body"]["items"][2]) >= 1
    /\ \A i \in 1..Len(r["body"]["items"][2]) : r["body"]["items"][2][i] \in WellFormedItems

C18_ValidPayloadKeepsItems ==
    (Returned("run") /\ WellTypedPayload(RawPage)) =>
        LET v == ValidatorValidate(RawPage)
            given == RawPage["body"]["items"][2]
        IN  /\ v["raised"] = "ok"
            /\ v["value"] # None
            /\ LogError("Validation failed", 0) \notin Range(log)
            /\ Len(v["value"][1]["items"]) = Len(given)
            /\ Validated = v["value"][1]["items"]
            /\ \A i \in 1..Len(given) :
                  /\ DOMAIN given[i] \cap {"id", "user_id"} \subseteq DOMAIN Validated[i]
                  /\ \A f \in DOMAIN given[i] \cap DOMAIN Validated[i] :
                        Validated[i][f] = given[i][f]

C18_Witness ==
    /\ Returned("run")
    /\ RawPage = JsonObject(Envelope(<<UserA, TrackB>>))
    /\ Len(Validated) = 2
    /\ Validated[1]["id"] = IntV(7)
    /\ Validated[2]["id"] = IntV(2)

(* C19: every positive-integer field rejects zero, negative values and     *)
(* values that are no integers: a payload with such a value in total,      *)
(* page, size, pages, an item's id or user_id or an entry of its items     *)
(* fails validation, and a version_id that is zero or negative fails the   *)
(* mapping with a ValidationError. The code validates in lax mode and      *)
(* accepts a text that is the numeral of a positive integer.               *)
NotPositiveInteger(v) == ~(v[1] = "int" /\ v[2] > 0)

BadItem(item) ==
    \/ \E f \in {"id", "user_id"} \cap DOMAIN item : NotPositiveInteger(item[f])
    \/ /\ "items" \in DOMAIN item
       /\ item["items"][1] = "list"
       /\ \E k \in 1..Len(item["items"][2]) : NotPositiveInteger(item["items"][2][k])

CarriesBadInteger(r) ==
    \/ \E f \in EnvelopeInts \cap DOMAIN r["body"] : NotPositiveInteger(r["body"][f])
    \/ /\ HasItems(r)
       /\ \E i \in 1..Len(r["body"]["items"][2]) : BadItem(r["body"]["items"][2][i])

C19_PositiveIntFieldsReject ==
    Returned("run") =>
        /\ (RawPage["kind"] = "object" /\ CarriesBadInteger(RawPage)) =>
              /\ ValidatorValidate(RawPage)["value"] = None
              /\ LogError("Validation failed", 0) \in Range(log)
              /\ Validated = <<>>
        /\ (ReachedPersistStep /\ endpoint \in Endpoints /\ Validated # <<>>
              /\ version_id <= 0) =>
              raised = "ValidationError"

(* C20: the throughput line of run only reports: whatever the elapsed time *)
(* (zero included) and the page count (zero included), it raises nothing   *)
(* and the rest of run goes as if the line were not there, so a run whose  *)
(* validation went through ends with what the persist step alone makes of  *)
(* it. The code divides by the elapsed time and raises ZeroDivisionError   *)
(* when it is zero.                                                        *)
PersistOutcome ==
    IF ~read_args["save"] THEN "ok"
    ELSE IF EndpointBuilderMap(endpoint) = None THEN "ValueError"
    ELSE MapLoop(EndpointBuilderMap(endpoint)[1], Validated, version_id, 1, <<>>)["raised"]

C20_MetricsAreObservational ==
    (Returned("run") /\ ingest # None
        /\ raised \notin {"AttributeError", "TypeError"}) =>
        /\ raised # "ZeroDivisionError"
        /\ raised = PersistOutcome
        /\ LogInfo("All fetches completed") \in Range(log)

(* C21: while the fetches of execute are in flight, from their launch to   *)
(* the completion of the last one, neither data_raw nor data_validated is  *)
(* written; data_raw changes only when gather returns, every fetch having  *)
(* finished, and data_validated only in the validate step that follows,    *)
(* which leaves data_raw alone.                                            *)
AllFetchesFinished == \A i \in 1..Len(tasks) : tasks[i]["done"]

C21_NoWriteDuringFanOut ==
    [][/\ (pc' = "gather") => ingest' = ingest
       /\ ingest'[1]["data_raw"] # ingest[1]["data_raw"] =>
             /\ pc = "gather"
             /\ pc' = "idle"
             /\ AllFetchesFinished
             /\ ingest'[1]["data_validated"] = ingest[1]["data_validated"]
       /\ ingest'[1]["data_validated"] # ingest[1]["data_validated"] =>
             /\ pc = "idle"
             /\ pc' = "idle"
             /\ Last(history') = "validate"
             /\ ingest'[1]["data_raw"] = ingest[1]["data_raw"]]_vars

C21_Witness ==
    /\ pc = "gather"
    /\ call["op"] = "execute"
    /\ history = <<"execute", "validate", "execute">>
    /\ \E i \in 1..Len(tasks) : tasks[i]["done"] /\ PassesValidation(tasks[i]["result"])
    /\ ingest[1]["data_raw"] # <<>>
    /\ ingest[1]["data_raw"] # GatherResults(tasks)

(* C22: validate only appends to data_validated and nothing clears the     *)
(* data_validated of an Ingest, while execute replaces data_raw: each run  *)
(* on the same configured Manager leaves in data_raw the results of its    *)
(* own fetches only and, when all of them are valid, appends their records *)
(* in page order to what data_validated held, so that k runs with the same *)
(* valid responses leave k copies of them.                                 *)
IsPrefix(a, b) == Len(a) <= Len(b) /\ SubSeq(b, 1, Len(a)) = a

C22_ValidatedAccumulates ==
    [][/\ (ingest # None /\ pc # "probe") =>
             /\ ingest' # None
             /\ IsPrefix(ingest[1]["data_validated"], ingest'[1]["data_validated"])
       /\ (pc = "gather" /\ pc' = "idle" /\ call["op"] = "run") =>
             /\ ingest'[1]["data_raw"] = [i \in 1..Len(tasks) |-> tasks[i]["result"]]
             /\ (\A i \in 1..Len(tasks) : PassesValidation(tasks[i]["result"])) =>
                   ingest'[1]["data_validated"] =
                       ingest[1]["data_validated"]
                           \o Contributions([i \in 1..Len(tasks) |-> tasks[i]["result"]])]_vars

C22_Witness ==
    /\ Returned("run")
    /\ history = <<"configure", "run", "run">>
    /\ raised = "ok"
    /\ Len(ingest[1]["data_raw"]) = 1
    /\ Contributions(ingest[1]["data_raw"]) # <<>>
    /\ Validated = Contributions(ingest[1]["data_raw"]) \o Contributions(ingest[1]["data_raw"])

(* C23: over one successful configure followed by one run exactly           *)
(* 1 + request_num fetches are issued: the probe for page 1, then one      *)
(* fetch for each page 1..request_num (page 1 a second time), all of them  *)
(* issued when the operation starts; no fetch is issued while or after the *)
(* fetches finish or are validated, whatever their outcome.                *)
PagesOf(queries) == [i \in 1..Len(queries) |-> queries[i]["page"]]

C23_FetchCountIsOnePlusPages ==
    /\ [](history = <<"configure">> =>
             /\ nfetch = 1
             /\ PagesOf(launched) = <<1>>)
    /\ []((history = <<"configure", "run">> /\ ingest # None) =>
             /\ nfetch = 1 + request_num[1]
             /\ PagesOf(launched) = [p \in 1..request_num[1] |-> p]
             /\ \A i \in 1..Len(launched) :
                    launched[i] = Query(endpoint, i, request_size[1]))
    /\ [][nfetch' # nfetch => pc = "idle" /\ pc' # "idle"]_vars

C23_Witness ==
    /\ Returned("run")
    /\ history = <<"configure", "run">>
    /\ request_num = Some(2)
    /\ nfetch = 3
    /\ PagesOf(launched) = <<1, 2>>
    /\ tasks[1]["result"] = FetchNone
    /\ FetchFailed(log, 1)
    /\ FailsValidation(tasks[2]["result"])

(* C24: as long as no configure was given a request_size of 0, ingest is   *)
(* set exactly when pages, total, request_size and request_num are all     *)
(* set, and then ingest.request_num = request_num = ceil(total /           *)
(* request_size); and a configure with request_size >= 1 that raises       *)
(* leaves the five fields as they were before the call.                    *)
ConfigFields == <<pages, total, request_size, request_num, ingest>>

C24_ConfigurationIsAllOrNothing ==
    /\ [](request_size # Some(0) =>
             /\ ingest # None <=>
                    (pages # None /\ total # None /\ request_size # None
                     /\ request_num # None)
             /\ ingest # None =>
                    /\ ingest[1]["request_num"] = request_num[1]
                    /\ request_num[1] = CeilDiv(total[1], request_size[1]))
    /\ [][(pc = "probe" /\ pc' = "idle" /\ call["size"] >= 1 /\ raised' # "ok") =>
             ConfigFields' = ConfigFields]_vars

C24_Witness ==
    /\ Returned("configure")
    /\ history = <<"configure", "configure">>
    /\ raised = "ConnectionError"
    /\ ingest # None
    /\ total = Some(95)
    /\ request_size = Some(ExampleSize)
    /\ request_num = Some(10)
    /\ ingest[1]["request_num"] = 10

====
